---- MODULE Spec2Model ----
(***************************************************************************)
(* Atlas project scaffolding tool (tools/atlas_init.py).                   *)
(*                                                                         *)
(* The model covers the template renderers, the plan built by main()       *)
(* (the `dirs` list and the `files` dict), and the materialisation         *)
(* of that plan on a filesystem shared by up to two invocations of the     *)
(* tool.  Every filesystem call of main() is one step, so that a failing   *)
(* write and the interleaving of two invocations are visible.              *)
(*                                                                         *)
(* A Python str is a sequence of one-character strings; Str() gives the    *)
(* text that an f-string substitutes for it.  A rendered template is the   *)
(* sequence of its literal and substituted parts, and Join() is the text   *)
(* the f-string evaluates to.  A path is the sequence of its segments      *)
(* below the directory given by --dir, which is the empty path.            *)
(***************************************************************************)
EXTENDS Integers, Sequences, FiniteSets, TLC

VARIABLES fs, pc, args, dirs, files, i, exit, err, runs, fsStart

vars == << fs, pc, args, dirs, files, i, exit, err, runs, fsStart >>

----------------------------------------------------------------------------
(* Bounds and inputs *)

\* longest --name argument tried
MaxNameLen == 2

\* longest --namespace argument tried
MaxNamespaceLen == 1

\* number of invocations one user runs one after the other
MaxRuns == 3

\* characters a --name argument is built from: a lower-case letter, an
\* upper-case letter, a digit and a blank (no path separator: the project
\* root is one path segment)
NameChars == { "a", "B", "1", " " }

\* characters a --namespace argument is built from: a lower-case letter, an
\* upper-case letter, a digit and a path separator
NamespaceChars == { "a", "B", "1", "/" }

StrsOver(chars, maxLen) == UNION { [1..n -> chars] : n \in 0..maxLen }

Names == StrsOver(NameChars, MaxNameLen)

Namespaces == StrsOver(NamespaceChars, MaxNamespaceLen)

\* the arguments of two invocations that run at the same time
RaceNames == { <<"a">>, <<"B", "1">> }

RaceNamespaces == { <<"a">>, <<"b">> }

\* reasons the operating system gives for a failed call: permission denied
\* (the call has no effect) and no space left on the device
Causes == { "EACCES", "ENOSPC" }

Procs == { 1, 2 }

----------------------------------------------------------------------------
(* Strings *)

\* the text of a str
RECURSIVE Str(_)
Str(s) == IF s = <<>> THEN "" ELSE Head(s) \o Str(Tail(s))

\* the text of parts[lo..hi], joined by halves
RECURSIVE JoinRange(_, _, _)
JoinRange(parts, lo, hi) ==
  IF lo > hi THEN ""
  ELSE IF lo = hi THEN parts[lo]
  ELSE LET mid == (lo + hi) \div 2 IN
       JoinRange(parts, lo, mid) \o JoinRange(parts, mid + 1, hi)

Join(parts) == JoinRange(parts, 1, Len(parts))

\* str.upper() on one character, for the letters the arguments are built from
upperChar(c) ==
  CASE c = "a" -> "A"
    [] c = "b" -> "B"
    [] OTHER   -> c

upper(s) == [k \in 1..Len(s) |-> upperChar(s[k])]

\* json.dumps of one character of a string (ensure_ascii escapes apart)
jsonChar(c) ==
  CASE c = "\"" -> "\\\""
    [] c = "\\" -> "\\\\"
    [] OTHER    -> c

RECURSIVE JsonStr(_)
JsonStr(s) == IF s = <<>> THEN "" ELSE jsonChar(Head(s)) \o JsonStr(Tail(s))

----------------------------------------------------------------------------
(* Template renderers *)

\* lines 17-42: json.dumps(..., indent=4) of the project file, version 0.1.0
create_project_file(name, namespace) ==
  << "{\n",
     "    \"schema\": \"atlas.project.v1\",\n",
     "    \"name\": \"",
     JsonStr(upper(name)),
     "\",\n",
     "    \"version\": \"0.1.0\",\n",
     "    \"description\": \"",
     JsonStr(name),
     " \\u2014 built on Atlas Engine\",\n",
     "    \"modules\": {\n",
     "        \"worldGraph\": \"worlds/main.worldgraph\",\n",
     "        \"tileGraphs\": \"worlds/\",\n",
     "        \"strategyGraphs\": \"strategy/\",\n",
     "        \"conversationGraphs\": \"conversations/\",\n",
     "        \"behaviorGraphs\": \"ai/\",\n",
     "        \"ai\": true,\n",
     "        \"content\": \"data/\"\n",
     "    },\n",
     "    \"runtime\": {\n",
     "        \"entryWorld\": \"worlds/main.worldgraph\",\n",
     "        \"tickRate\": 30,\n",
     "        \"maxPlayers\": 20\n",
     "    },\n",
     "    \"assets\": {\n",
     "        \"root\": \"assets\"\n",
     "    },\n",
     "    \"config\": \"config/runtime.json\"\n",
     "}\n" >>

\* lines 45-87: Plugin.toml, version 0.1.0
create_plugin_toml(name, namespace) ==
  << "[plugin]\n",
     "id = \"",
     Str(namespace),
     "\"\n",
     "name = \"",
     Str(name),
     "\"\n",
     "version = \"0.1.0\"\n",
     "type = \"game\"\n",
     "\n",
     "[engine]\n",
     "required_version = \">=0.1.0\"\n",
     "determinism = true\n",
     "rollback = true\n",
     "server_authoritative = true\n",
     "\n",
     "[capabilities]\n",
     "uses_graphs = true\n",
     "uses_schemas = true\n",
     "uses_assetgraph = true\n",
     "uses_networking = true\n",
     "uses_ai_assist = false\n",
     "\n",
     "[content]\n",
     "schemas_path = \"Schemas\"\n",
     "graphs_path = \"worlds\"\n",
     "strategy_path = \"strategy\"\n",
     "conversations_path = \"conversations\"\n",
     "assets_path = \"assets\"\n",
     "data_path = \"data\"\n",
     "config_path = \"config\"\n",
     "\n",
     "[code]\n",
     "adapters_path = \"Code/Adapters\"\n",
     "entry_point = \"Code/GameInit.cpp\"\n",
     "\n",
     "[editor]\n",
     "show_in_launcher = true\n",
     "default_project = true\n",
     "\n",
     "[testing]\n",
     "test_path = \"Tests\"\n",
     "golden_required = true\n" >>

\* lines 90-101: the top-level CMakeLists.txt
create_root_cmakelists(name) ==
  << "cmake_minimum_required(VERSION 3.20)\n",
     "project(",
     Str(name),
     " LANGUAGES CXX)\n",
     "set(CMAKE_CXX_STANDARD 17)\n",
     "\n",
     "find_package(AtlasEngine REQUIRED)\n",
     "find_package(AtlasGameplay REQUIRED)\n",
     "\n",
     "add_subdirectory(module)\n" >>

\* the library target named after the project instead of after the class
create_module_cmakelists_projectTarget(name) ==
  << "add_library(",
     Str(name),
     " SHARED\n",
     "    ",
     Str(name) \o "Module",
     ".cpp\n",
     ")\n",
     "\n",
     "target_include_directories(",
     Str(name),
     " PUBLIC ${CMAKE_CURRENT_SOURCE_DIR})\n",
     "target_link_libraries(",
     Str(name),
     " PRIVATE Atlas::AtlasEngine Atlas::AtlasGameplay)\n" >>

\* lines 104-113: module/CMakeLists.txt
create_module_cmakelists(name) ==
  << "add_library(",
     Str(name) \o "Module",
     " SHARED\n",
     "    ",
     Str(name) \o "Module",
     ".cpp\n",
     ")\n",
     "\n",
     "target_include_directories(",
     Str(name) \o "Module",
     " PUBLIC ${CMAKE_CURRENT_SOURCE_DIR})\n",
     "target_link_libraries(",
     Str(name) \o "Module",
     " PRIVATE Atlas::AtlasEngine Atlas::AtlasGameplay)\n" >>

\* lines 116-140: the module header
create_module_header(name, namespace) ==
  << "#pragma once\n",
     "#include <engine/module/IGameModule.h>\n",
     "\n",
     "namespace ",
     Str(namespace),
     " {\n",
     "\n",
     "class ",
     Str(name) \o "Module",
     " : public atlas::module::IGameModule {\n",
     "public:\n",
     "    atlas::module::GameModuleDesc Describe() const override;\n",
     "    void RegisterTypes(atlas::module::GameModuleContext& ctx) override;\n",
     "    void ConfigureReplication(atlas::module::GameModuleContext& ctx) override;\n",
     "    void ConfigureServerRules(atlas::module::GameModuleContext& ctx) override;\n",
     "    void OnStart(atlas::module::GameModuleContext& ctx) override;\n",
     "    void OnTick(atlas::module::GameModuleContext& ctx, float dt) override;\n",
     "    void OnShutdown(atlas::module::GameModuleContext& ctx) override;\n",
     "\n",
     "private:\n",
     "    bool m_started = false;\n",
     "    uint32_t m_tickCount = 0;\n",
     "};\n",
     "\n",
     "} // namespace ",
     Str(namespace),
     "\n" >>

\* lines 143-189: the module source
create_module_source(name, namespace) ==
  << "#include \"",
     Str(name) \o "Module",
     ".h\"\n",
     "\n",
     "namespace ",
     Str(namespace),
     " {\n",
     "\n",
     "atlas::module::GameModuleDesc ",
     Str(name) \o "Module",
     "::Describe() const {\n",
     "    return {\"",
     Str(name),
     "\", 1};\n",
     "}\n",
     "\n",
     "void ",
     Str(name) \o "Module",
     "::RegisterTypes(atlas::module::GameModuleContext& ctx) {\n",
     "    (void)ctx;\n",
     "}\n",
     "\n",
     "void ",
     Str(name) \o "Module",
     "::ConfigureReplication(atlas::module::GameModuleContext& ctx) {\n",
     "    (void)ctx;\n",
     "}\n",
     "\n",
     "void ",
     Str(name) \o "Module",
     "::ConfigureServerRules(atlas::module::GameModuleContext& ctx) {\n",
     "    (void)ctx;\n",
     "}\n",
     "\n",
     "void ",
     Str(name) \o "Module",
     "::OnStart(atlas::module::GameModuleContext& ctx) {\n",
     "    (void)ctx;\n",
     "    m_started = true;\n",
     "}\n",
     "\n",
     "void ",
     Str(name) \o "Module",
     "::OnTick(atlas::module::GameModuleContext& ctx, float dt) {\n",
     "    (void)ctx;\n",
     "    (void)dt;\n",
     "    ++m_tickCount;\n",
     "}\n",
     "\n",
     "void ",
     Str(name) \o "Module",
     "::OnShutdown(atlas::module::GameModuleContext& ctx) {\n",
     "    (void)ctx;\n",
     "    m_started = false;\n",
     "    m_tickCount = 0;\n",
     "}\n",
     "\n",
     "} // namespace ",
     Str(namespace),
     "\n",
     "\n",
     "// Factory function for dynamic loading\n",
     "extern \"C\" atlas::module::IGameModule* CreateGameModule() {\n",
     "    return new ",
     Str(namespace),
     "::",
     Str(name) \o "Module",
     "();\n",
     "}\n" >>

\* lines 192-201: json.dumps(..., indent=4) of the runtime configuration
create_runtime_json ==
  << "{\n",
     "    \"schema\": \"atlas.config.v1\",\n",
     "    \"tickRate\": 30,\n",
     "    \"maxPlayers\": 20,\n",
     "    \"networkMode\": \"client_server\",\n",
     "    \"deterministic\": true,\n",
     "    \"serverRules\": {}\n",
     "}\n" >>

----------------------------------------------------------------------------
(* Filesystem *)

NoFiles == [p \in {} |-> ""]

\* os.path.join(path, segment); joining the empty string names `path` itself
join(path, segment) == IF segment = "" THEN path ELSE Append(path, segment)

\* os.path.isdir in place of os.path.exists
exists_isdir(f, path) == path \in f.dirs

\* a check that never finds the project root
exists_never(f, path) == FALSE

\* os.path.exists(path)
exists(f, path) == path \in f.dirs \/ path \in DOMAIN f.files

\* os.makedirs without exist_ok raises when the directory is there
makedirs_raises_noExistOk(f, path) ==
  \/ path \in f.dirs
  \/ \E k \in 0..Len(path) : SubSeq(path, 1, k) \in DOMAIN f.files

\* os.makedirs(path, exist_ok=True) raises FileExistsError only when the
\* path or one of its ancestors is there and is not a directory
makedirs_raises(f, path) ==
  \E k \in 0..Len(path) : SubSeq(path, 1, k) \in DOMAIN f.files

\* os.makedirs(path, exist_ok=True): the directory and its missing ancestors
makedirs(f, path) ==
  [f EXCEPT !.dirs = @ \cup { SubSeq(path, 1, k) : k \in 0..Len(path) }]

\* open(path, "w") followed by f.write(content): the file is created, or
\* replaced when it is there
write(f, path, content) ==
  [f EXCEPT !.files = (path :> content) @@ @]

----------------------------------------------------------------------------
(* The plan of main() *)

\* line 224: os.path.join(args.dir, name)
project_dir(name) == join(<<>>, Str(name))

\* the data directory forgotten
PlanDirs_noData(name) ==
  LET pd == project_dir(name) IN
  << pd,
     join(pd, "module"),
     join(pd, "assets"),
     join(pd, "config") >>

\* the project root listed after its subdirectories
PlanDirs_rootLast(name) ==
  LET pd == project_dir(name) IN
  << join(pd, "module"),
     join(pd, "assets"),
     join(pd, "data"),
     join(pd, "config"),
     pd >>

\* lines 231-237: the `dirs` list
PlanDirs(name) ==
  LET pd == project_dir(name) IN
  << pd,
     join(pd, "module"),
     join(pd, "assets"),
     join(pd, "data"),
     join(pd, "config") >>

\* a plan that reads the disk: the content of a file that is already there
\* is kept
PlanFiles_keepExisting(name, namespace) ==
  LET pd == project_dir(name)
      keep(path, parts) ==
        << path, IF path \in DOMAIN fs.files THEN << fs.files[path] >>
                 ELSE parts >>
  IN
  << keep(join(pd, Str(name) \o ".atlas"),
          create_project_file(name, namespace)),
     keep(join(pd, "Plugin.toml"), create_plugin_toml(name, namespace)),
     keep(join(pd, "CMakeLists.txt"), create_root_cmakelists(name)),
     keep(join(join(pd, "module"), "CMakeLists.txt"),
          create_module_cmakelists(name)),
     keep(join(join(pd, "module"), Str(name) \o "Module.h"),
          create_module_header(name, namespace)),
     keep(join(join(pd, "module"), Str(name) \o "Module.cpp"),
          create_module_source(name, namespace)),
     keep(join(join(pd, "config"), "runtime.json"), create_runtime_json) >>

\* the `files` dict in insertion order; each content is kept as the parts of
\* its template and joined when it is written
PlanFiles(name, namespace) ==
  LET pd == project_dir(name) IN
  << << join(pd, Str(name) \o ".atlas"),
        create_project_file(name, namespace) >>,
     << join(pd, "Plugin.toml"),
        create_plugin_toml(name, namespace) >>,
     << join(pd, "CMakeLists.txt"),
        create_root_cmakelists(name) >>,
     << join(join(pd, "module"), "CMakeLists.txt"),
        create_module_cmakelists(name) >>,
     << join(join(pd, "module"), Str(name) \o "Module.h"),
        create_module_header(name, namespace) >>,
     << join(join(pd, "module"), Str(name) \o "Module.cpp"),
        create_module_source(name, namespace) >>,
     << join(join(pd, "config"), "runtime.json"),
        create_runtime_json >> >>

----------------------------------------------------------------------------
(* Initial states *)

NoErr == [kind |-> "none", path |-> <<>>, cause |-> "none"]

\* what can be in the output directory, which exists, before the first
\* invocation: nothing, an earlier project at the project root, or a plain
\* file at the project root
InitFS(name) ==
  LET pd == project_dir(name) IN
  { [dirs |-> {<<>>}, files |-> NoFiles],
    [dirs |-> {<<>>, pd, join(pd, "module")},
     files |-> (join(pd, "Plugin.toml") :> "[plugin]\nid = \"old\"\n")
               @@ (join(join(pd, "module"), "notes.txt") :> "keep me\n")] }
  \cup
  IF pd = <<>> THEN {} ELSE { [dirs |-> {<<>>}, files |-> (pd :> "a file\n")] }

InitCommon ==
  /\ dirs = [p \in Procs |-> <<>>]
  /\ files = [p \in Procs |-> <<>>]
  /\ i = [p \in Procs |-> 0]
  /\ exit = [p \in Procs |-> -1]
  /\ err = [p \in Procs |-> NoErr]
  /\ runs = [p \in Procs |-> <<>>]
  /\ fsStart = [p \in Procs |-> fs]

\* one user, one invocation at a time
Init ==
  /\ \E n \in Names, s \in Namespaces :
       args = [p \in Procs |-> [name |-> n, namespace |-> s]]
  /\ fs \in InitFS(args[1].name)
  /\ pc = [p \in Procs |-> IF p = 1 THEN "check" ELSE "idle"]
  /\ InitCommon

\* two invocations for the same project path, started at the same time
InitRace ==
  /\ \E n \in RaceNames, s1 \in RaceNamespaces, s2 \in RaceNamespaces :
       args = [p \in Procs |-> [name |-> n,
                                namespace |-> IF p = 1 THEN s1 ELSE s2]]
  /\ fs \in InitFS(args[1].name)
  /\ pc = [p \in Procs |-> "check"]
  /\ InitCommon

----------------------------------------------------------------------------
(* main() *)

\* the invocation ends: sys.exit(1), an uncaught OSError (exit status 1), or
\* the end of main() (exit status 0)
Finish(p, code, e) ==
  /\ pc' = [pc EXCEPT ![p] = "done"]
  /\ exit' = [exit EXCEPT ![p] = code]
  /\ err' = [err EXCEPT ![p] = e]
  /\ runs' = [runs EXCEPT ![p] = Append(@, e.kind)]

\* lines 222-237: the existence check and the `dirs` list
CheckExists(p) ==
  /\ pc[p] = "check"
  /\ LET pd == project_dir(args[p].name) IN
     IF exists(fs, pd)
       THEN /\ Finish(p, 1, [kind |-> "DirectoryExists", path |-> pd,
                             cause |-> "none"])
            /\ UNCHANGED << dirs, i >>
       ELSE /\ pc' = [pc EXCEPT ![p] = "mkdir"]
            /\ dirs' = [dirs EXCEPT ![p] = PlanDirs(args[p].name)]
            /\ i' = [i EXCEPT ![p] = 1]
            /\ UNCHANGED << exit, err, runs >>
  /\ UNCHANGED << fs, args, files, fsStart >>

\* lines 238-239: one round of the makedirs loop
MakeDir(p) ==
  /\ pc[p] = "mkdir"
  /\ LET d == dirs[p][i[p]] IN
     IF makedirs_raises(fs, d)
       THEN /\ Finish(p, 1, [kind |-> "FileExistsError", path |-> d,
                             cause |-> "EEXIST"])
            /\ UNCHANGED << fs, i >>
       ELSE /\ fs' = makedirs(fs, d)
            /\ IF i[p] < Len(dirs[p])
                 THEN /\ i' = [i EXCEPT ![p] = @ + 1]
                      /\ UNCHANGED pc
                 ELSE /\ i' = [i EXCEPT ![p] = 0]
                      /\ pc' = [pc EXCEPT ![p] = "plan"]
            /\ UNCHANGED << exit, err, runs >>
  /\ UNCHANGED << args, dirs, files, fsStart >>

\* os.makedirs raises another OSError: the exception ends the invocation
MakeDirFail(p) ==
  /\ pc[p] = "mkdir"
  /\ \E c \in Causes :
       Finish(p, 1, [kind |-> "MkdirError", path |-> dirs[p][i[p]],
                     cause |-> c])
  /\ UNCHANGED << fs, args, dirs, files, i, fsStart >>

\* lines 242-250: the `files` dict, every content rendered
PlanFilesStep(p) ==
  /\ pc[p] = "plan"
  /\ files' = [files EXCEPT
                 ![p] = PlanFiles(args[p].name, args[p].namespace)]
  /\ i' = [i EXCEPT ![p] = 1]
  /\ pc' = [pc EXCEPT ![p] = "write"]
  /\ UNCHANGED << fs, args, dirs, exit, err, runs, fsStart >>

\* lines 252-256: one round of the write loop
WriteFile(p) ==
  /\ pc[p] = "write"
  /\ fs' = write(fs, files[p][i[p]][1], Join(files[p][i[p]][2]))
  /\ IF i[p] < Len(files[p])
       THEN /\ i' = [i EXCEPT ![p] = @ + 1]
            /\ UNCHANGED << pc, exit, err, runs >>
       ELSE /\ Finish(p, 0, [kind |-> "ok", path |-> <<>>, cause |-> "none"])
            /\ UNCHANGED i
  /\ UNCHANGED << args, dirs, files, fsStart >>

\* a handler that removes what the invocation created
WriteFail_cleanup(p) ==
  /\ pc[p] = "write"
  /\ \E c \in Causes :
       /\ fs' = fsStart[p]
       /\ Finish(p, 1, [kind |-> "WriteError", path |-> files[p][i[p]][1],
                        cause |-> c])
  /\ UNCHANGED << args, dirs, files, i, fsStart >>

\* lines 253-254 raise OSError, which nothing catches: the exception ends
\* the invocation.  When open() fails (EACCES) the file is untouched; when
\* f.write() fails (ENOSPC) open() has created or truncated the file, which
\* is left empty.
WriteFail(p) ==
  /\ pc[p] = "write"
  /\ \E c \in Causes :
       /\ fs' = IF c = "ENOSPC" THEN write(fs, files[p][i[p]][1], "") ELSE fs
       /\ Finish(p, 1, [kind |-> "WriteError", path |-> files[p][i[p]][1],
                        cause |-> c])
  /\ UNCHANGED << args, dirs, files, i, fsStart >>

\* the user runs the same command again
Rerun(p) ==
  /\ pc[p] = "done"
  /\ Len(runs[p]) < MaxRuns
  /\ pc' = [pc EXCEPT ![p] = "check"]
  /\ dirs' = [dirs EXCEPT ![p] = <<>>]
  /\ files' = [files EXCEPT ![p] = <<>>]
  /\ i' = [i EXCEPT ![p] = 0]
  /\ exit' = [exit EXCEPT ![p] = -1]
  /\ err' = [err EXCEPT ![p] = NoErr]
  /\ fsStart' = [fsStart EXCEPT ![p] = fs]
  /\ UNCHANGED << fs, args, runs >>

Check == \E p \in Procs : CheckExists(p)

Mkdir == \E p \in Procs : MakeDir(p)

MkdirFail == \E p \in Procs : MakeDirFail(p)

Plan == \E p \in Procs : PlanFilesStep(p)

Write == \E p \in Procs : WriteFile(p)

WriteFailure == \E p \in Procs : WriteFail(p)

Again == \E p \in Procs : Rerun(p)

Next == Check \/ Mkdir \/ MkdirFail \/ Plan \/ Write \/ WriteFailure \/ Again

\* each of the two invocations runs once
NextRace == Check \/ Mkdir \/ MkdirFail \/ Plan \/ Write \/ WriteFailure

Spec == Init /\ [][Next]_vars

SpecRace == InitRace /\ [][NextRace]_vars

----------------------------------------------------------------------------
(* Identifier rules of the specification *)

LowerCase == { "a", "b", "c", "d", "e", "f", "g", "h", "i", "j", "k", "l", "m",
               "n", "o", "p", "q", "r", "s", "t", "u", "v", "w", "x", "y", "z" }

UpperCase == { "A", "B", "C", "D", "E", "F", "G", "H", "I", "J", "K", "L", "M",
               "N", "O", "P", "Q", "R", "S", "T", "U", "V", "W", "X", "Y", "Z" }

Digits == { "0", "1", "2", "3", "4", "5", "6", "7", "8", "9" }

\* [A-Za-z][A-Za-z0-9_]*
ValidName(s) ==
  /\ Len(s) >= 1
  /\ s[1] \in LowerCase \cup UpperCase
  /\ \A k \in 2..Len(s) : s[k] \in LowerCase \cup UpperCase \cup Digits \cup {"_"}

\* [a-z][a-z0-9_]*
ValidNamespace(s) ==
  /\ Len(s) >= 1
  /\ s[1] \in LowerCase
  /\ \A k \in 2..Len(s) : s[k] \in LowerCase \cup Digits \cup {"_"}

ValidInput(a) == ValidName(a.name) /\ ValidNamespace(a.namespace)

----------------------------------------------------------------------------
(* Reading the generated artifacts *)

\* the part of a rendered template that follows the first part `lit`
TokenAfter(parts, lit) ==
  LET ks == { k \in 1..(Len(parts) - 1) : parts[k] = lit } IN
  IF ks = {} THEN "<none>"
  ELSE parts[(CHOOSE k \in ks : \A j \in ks : k <= j) + 1]

Root(p) == project_dir(args[p].name)

\* is `path` the directory `root` or something below it
Under(root, path) ==
  Len(path) >= Len(root) /\ SubSeq(path, 1, Len(root)) = root

ClassOf(p) == Str(args[p].name) \o "Module"

\* the seven files of a project and what each holds
ExpectedFiles(p) ==
  LET n == args[p].name
      s == args[p].namespace
      r == Root(p)
  IN  (Append(r, Str(n) \o ".atlas") :> Join(create_project_file(n, s)))
      @@ (Append(r, "Plugin.toml") :> Join(create_plugin_toml(n, s)))
      @@ (Append(r, "CMakeLists.txt") :> Join(create_root_cmakelists(n)))
      @@ (r \o <<"module", "CMakeLists.txt">>
            :> Join(create_module_cmakelists(n)))
      @@ (r \o <<"module", ClassOf(p) \o ".h">>
            :> Join(create_module_header(n, s)))
      @@ (r \o <<"module", ClassOf(p) \o ".cpp">>
            :> Join(create_module_source(n, s)))
      @@ (r \o <<"config", "runtime.json">> :> Join(create_runtime_json))

\* something, a directory or a file, is at the project root
RootPresent(f, p) == Root(p) \in f.dirs \cup DOMAIN f.files

\* the five directories of a project
ExpectedDirs(p) ==
  { Root(p) } \cup
  { Append(Root(p), d) : d \in { "module", "assets", "data", "config" } }

----------------------------------------------------------------------------
(* Claims *)

\* C1: when the project root already exists at the start of an invocation,
\* the invocation ends with DirectoryExists and exit status 1, and the
\* filesystem is exactly what it was when the invocation started.
C1_ExistingRootUntouched ==
  \A p \in Procs :
    (pc[p] \notin { "idle", "check" } /\ RootPresent(fsStart[p], p))
      => /\ pc[p] = "done"
         /\ err[p].kind = "DirectoryExists"
         /\ exit[p] = 1
         /\ fs = fsStart[p]

\* an earlier project was at the root and the first invocation has ended
C1_Witness ==
  /\ pc[1] = "done"
  /\ runs[1] = << "DirectoryExists" >>
  /\ Append(Root(1), "Plugin.toml") \in DOMAIN fs.files
  /\ fs.files[Append(Root(1), "Plugin.toml")] = "[plugin]\nid = \"old\"\n"

\* C2: for arguments that break the identifier rules the invocation ends with
\* InvalidIdentifier and the filesystem is what it was when the invocation
\* started: no directory created, no file written.
C2_InvalidInputRejected ==
  \A p \in Procs :
    (pc[p] # "idle" /\ ~ValidInput(args[p]))
      => /\ fs = fsStart[p]
         /\ pc[p] \in { "check", "done" }
         /\ pc[p] = "done" => err[p].kind = "InvalidIdentifier"

\* C3: for valid arguments the planned artifacts agree on the namespace
\* (header declaration, source declaration, plugin id) and on the class name
\* (header declaration, build target, factory function).
C3_TokensAgree ==
  \A p \in Procs :
    (files[p] # <<>> /\ ValidInput(args[p]))
      => LET toml   == files[p][2][2]
             cmake  == files[p][4][2]
             header == files[p][5][2]
             source == files[p][6][2]
         IN  /\ TokenAfter(header, "namespace ") = Str(args[p].namespace)
             /\ TokenAfter(source, "namespace ")
                  = TokenAfter(header, "namespace ")
             /\ TokenAfter(toml, "id = \"") = TokenAfter(header, "namespace ")
             /\ TokenAfter(source, "    return new ")
                  = TokenAfter(header, "namespace ")
             /\ TokenAfter(header, "class ") = ClassOf(p)
             /\ TokenAfter(cmake, "add_library(") = TokenAfter(header, "class ")
             /\ TokenAfter(source, "::") = TokenAfter(header, "class ")

\* valid arguments, the files rendered and written
C3_Witness ==
  /\ ValidInput(args[1])
  /\ Len(args[1].name) = 2
  /\ files[1] # <<>>
  /\ exit[1] = 0

\* C4: once the first invocation has succeeded, the project root holds
\* exactly the five directories and the seven files, each file with the
\* content rendered for it.
C4_TreeAsPlanned ==
  (runs[1] # <<>> /\ runs[1][1] = "ok")
    => LET expected == ExpectedFiles(1) IN
       /\ { d \in fs.dirs : Under(Root(1), d) } = ExpectedDirs(1)
       /\ { f \in DOMAIN fs.files : Under(Root(1), f) } = DOMAIN expected
       /\ \A f \in DOMAIN expected : fs.files[f] = expected[f]

\* the first invocation has just ended with exit status 0
C4_Witness ==
  /\ pc[1] = "done"
  /\ runs[1] = << "ok" >>
  /\ exit[1] = 0

\* C5: the [code] table of the planned plugin descriptor names the generated
\* module source as its entry point.
C5_EntryPointIsModuleSource ==
  \A p \in Procs :
    files[p] # <<>>
      => LET toml   == files[p][2][2]
             source == { ClassOf(p) \o ".cpp", "module/" \o ClassOf(p) \o ".cpp" }
         IN  \/ TokenAfter(toml, "entry_point = \"") \in source
             \/ \E k \in 1..Len(toml) :
                  toml[k] \in { "entry_point = \"" \o s \o "\"\n" : s \in source }

\* C6: after a first invocation that succeeded, every further invocation with
\* the same arguments ends with exit status 1 and DirectoryExists naming the
\* project path, and the seven generated files keep their content.
C6_RerunRefused ==
  (runs[1] # <<>> /\ runs[1][1] = "ok")
    => LET expected == ExpectedFiles(1) IN
       /\ \A k \in 2..Len(runs[1]) : runs[1][k] = "DirectoryExists"
       /\ (pc[1] = "done" /\ Len(runs[1]) >= 2)
            => /\ exit[1] = 1
               /\ err[1].kind = "DirectoryExists"
               /\ err[1].path = Root(1)
       /\ Len(runs[1]) >= 2 => pc[1] \in { "check", "done" }
       /\ \A f \in DOMAIN expected :
            f \in DOMAIN fs.files /\ fs.files[f] = expected[f]

\* the last of the allowed invocations has ended after a first success
C6_Witness ==
  /\ pc[1] = "done"
  /\ Len(runs[1]) = MaxRuns
  /\ runs[1][1] = "ok"
  /\ exit[1] = 1

Bytes(plan) == [k \in 1..Len(plan) |-> << plan[k][1], Join(plan[k][2]) >>]

C9_ParentBeforeChild ==
  /\ [](\A p \in Procs :
          /\ dirs[p] # <<>>
               => /\ dirs[p][1] = Root(p)
                  /\ \A k \in 2..Len(dirs[p]) :
                       \E j \in 1..(k - 1) :
                         dirs[p][j] = SubSeq(dirs[p][k], 1, Len(dirs[p][k]) - 1)
          /\ files[p] # <<>>
               => \A k \in 1..Len(files[p]) :
                    \E j \in 1..Len(dirs[p]) :
                      dirs[p][j] = SubSeq(files[p][k][1], 1,
                                          Len(files[p][k][1]) - 1))
  /\ [][\A p \in Procs :
          (pc[p] = "write" /\ fs'.files # fs.files)
            => \A k \in 1..Len(dirs[p]) : dirs[p][k] \in fs.dirs]_vars

\* the first file has been written
C9_Witness ==
  /\ pc[1] = "write"
  /\ i[1] = 2
  /\ files[1][1][1] \in DOMAIN fs.files
  /\ \A k \in 1..Len(dirs[1]) : dirs[1][k] \in fs.dirs

\* a step of invocation p that completes one write
Wrote(p) ==
  /\ pc[p] = "write"
  /\ \/ i'[p] = i[p] + 1
     \/ exit'[p] = 0

\* C10: an invocation that has passed the existence check is never stopped
\* by the other one having created the tree: it does not end with
\* DirectoryExists or a file-exists error; each of its writes replaces what
\* is on disk; and when both invocations end with exit status 0 every
\* planned file holds the content of one of the two.
C10_CheckIsNotALock ==
  /\ [][\A p \in Procs :
          pc[p] \in { "mkdir", "plan", "write" }
            => /\ err'[p].kind \in { "none", "ok", "MkdirError", "WriteError" }
               /\ Wrote(p)
                    => /\ files[p][i[p]][1] \in DOMAIN fs'.files
                       /\ fs'.files[files[p][i[p]][1]]
                            = Join(files[p][i[p]][2])]_vars
  /\ []((exit[1] = 0 /\ exit[2] = 0)
          => \A k \in 1..Len(files[1]) :
               /\ files[1][k][1] = files[2][k][1]
               /\ fs.files[files[1][k][1]]
                    \in { Join(files[1][k][2]), Join(files[2][k][2]) })

\* both invocations ended with exit status 0, and the tree mixes them: the
\* header is the first invocation's, the source the second's, with different
\* namespaces
C10_Witness ==
  /\ exit[1] = 0
  /\ exit[2] = 0
  /\ args[1].namespace # args[2].namespace
  /\ fs.files[files[1][5][1]] = Join(files[1][5][2])
  /\ fs.files[files[2][6][1]] = Join(files[2][6][2])

====
